---- MODULE Spec2Model ----
(***************************************************************************)
(* Model of best-day-to-save: the SavingPlan engine (src/src/saving_plan.py)*)
(* with its per-month purchase-day selection, the 31-day sweep and its      *)
(* aggregation (src/dashboard/main.py, src/src/visualize.py) and the        *)
(* generator of candidate time periods.                                     *)
(*                                                                         *)
(* A polars frame is a sequence of row records in frame order.  A collected *)
(* lazy frame is a record [err, rows]: err names the exception raised while *)
(* the plan is executed ("none" when it succeeds).  Float quantities are    *)
(* exact rationals <<numerator, denominator>> in lowest terms.              *)
(***************************************************************************)
EXTENDS Integers, Sequences, FiniteSets, TLC

VARIABLES
    df,             \* the price table handed to the program (Date ascending)
    pc,             \* which entry point has run: "idle", "plan", "failed", "main", "plot", "periods", "write"
    invest_amount,  \* SavingPlan.invest_amount; the invest_amount given to a sweep
    day_to_invest,  \* SavingPlan.day_to_invest
    period,         \* SavingPlan.period; the period given to a sweep
    self_df,        \* SavingPlan.df (the frame after the constructor's filter)
    result_df_set,  \* SavingPlan._result_df is not None
    total_worth_c,  \* SavingPlan._total_worth: <<>> is None, <<v>> a cached value
    collected,      \* outcome of the last result_df.collect()
    worth,          \* outcome of the last read of total_worth
    sweep,          \* outcome of the last 31-day sweep and its aggregation
    time_periods,   \* outcome of get_all_possible_time_periods
    writer          \* locals of write_simulation_result and the files it wrote

vars == <<df, pc, invest_amount, day_to_invest, period, self_df,
          result_df_set, total_worth_c, collected, worth, sweep, time_periods,
          writer>>

-----------------------------------------------------------------------------
(* Bounds of the model *)

MaxLen == 3         \* most price points in a series handed to a SavingPlan
MaxSpanYears == 2   \* calendar years after the first one that a series may reach
MaxMinLength == 2   \* min_length ranges over 1..MaxMinLength
MaxStep == 2        \* step ranges over 1..MaxStep

Abs(x) == IF x < 0 THEN 0 - x ELSE x

RECURSIVE GCD(_, _)
GCD(a, b) == IF b = 0 THEN a ELSE GCD(b, a % b)

(* Rationals: the model's stand-in for f64 columns *)
Rat(n, d) ==
    LET g == GCD(Abs(n), d)
    IN  IF n = 0 THEN <<0, 1>> ELSE <<n \div g, d \div g>>
RatAdd(a, b) == Rat(a[1] * b[2] + b[1] * a[2], a[2] * b[2])
RatSub(a, b) == Rat(a[1] * b[2] - b[1] * a[2], a[2] * b[2])
RatMulInt(a, k) == Rat(a[1] * k, a[2])
RatLess(a, b) == a[1] * b[2] < b[1] * a[2]
RatLeq(a, b) == a[1] * b[2] <= b[1] * a[2]

-----------------------------------------------------------------------------
(* Calendar dates *)

MkDate(y, m, d) == [year |-> y, month |-> m, day |-> d]
DateKey(dt) == (dt.year * 12 + dt.month) * 31 + dt.day
DateLeq(a, b) == DateKey(a) <= DateKey(b)

IsLeap(y) == (y % 4 = 0 /\ y % 100 # 0) \/ y % 400 = 0

get_last_day_of_month(year, month) ==
    IF month = 2 THEN (IF IsLeap(year) THEN 29 ELSE 28)
    ELSE IF month \in {4, 6, 9, 11} THEN 30 ELSE 31

-----------------------------------------------------------------------------
(* Inputs the model draws from *)

DayChoices == {5, 30, 31}       \* days of month on which a price may exist
SeriesMonths == {<<2023, 1>>, <<2023, 2>>, <<2023, 3>>}
SeriesDates ==
    {MkDate(ym[1], ym[2], d) : ym \in SeriesMonths, d \in DayChoices} \cap
    {dt \in [year : {2023}, month : 1..3, day : DayChoices] :
        dt.day <= get_last_day_of_month(dt.year, dt.month)}
Closes == {1, 2}
PricePoints == [Date : SeriesDates, Close : Closes]

\* every Date-ascending table with unique dates of at most MaxLen rows
AllSeries ==
    {s \in UNION {[1..n -> PricePoints] : n \in 0..MaxLen} :
        \A i \in 1..(Len(s) - 1) : DateKey(s[i].Date) < DateKey(s[i + 1].Date)}

TargetDays == {0, 5, 7, 30, 31, 32}     \* includes days outside 1..31
InvestAmounts == {0, 2}                 \* includes the non-positive amount 0

NoDate == MkDate(0, 0, 0)
PeriodStr(s) == [tag |-> "str", str |-> s, start |-> NoDate, end |-> NoDate]
PeriodTuple(a, b) == [tag |-> "tuple", str |-> "", start |-> a, end |-> b]
ExplicitPeriods ==
    {PeriodTuple(MkDate(2023, 1, 1), MkDate(2023, 3, 31)),
     PeriodTuple(MkDate(2023, 1, 10), MkDate(2023, 3, 30)),
     PeriodTuple(MkDate(2023, 1, 10), MkDate(2023, 1, 31))}
Periods == ExplicitPeriods \cup {PeriodStr("max"), PeriodStr("ytd")}
PositiveAmounts == InvestAmounts \ {0}

-----------------------------------------------------------------------------
(* SavingPlan *)

\* a frame's rows as an explicit tuple (each row evaluated once)
Rows(f) == SubSeq(f, 1, Len(f))

Frame(rows) == [err |-> "none", rows |-> rows]
Raised(e) == [err |-> e, rows |-> <<>>]

\* period[i] as Python evaluates it: an element of the tuple, or one
\* character of the string
PeriodItem(p, i) ==
    IF p.tag = "str"
    THEN [kind |-> "str", date |-> NoDate]
    ELSE [kind |-> "datetime", date |-> IF i = 0 THEN p.start ELSE p.end]

\* __init__: the filter pl.col("Date").is_between(period[0], period[1]),
\* closed on both sides; replace_time_zone(None) leaves naive dates as they are
InitFilter(table, p) ==
    LET Between(r) == DateLeq(p.start, r.Date) /\ DateLeq(r.Date, p.end)
    IN  SelectSeq(table, Between)

extract_dates(rows) ==
    Rows([i \in 1..Len(rows) |->
        [Date |-> rows[i].Date, Close |-> rows[i].Close,
         year |-> rows[i].Date.year, month |-> rows[i].Date.month,
         day |-> rows[i].Date.day]])

\* pl.col("Date").min() of a frame with at least one row; p_df["Date"].dt.min()
MinDate(rows) ==
    CHOOSE dt \in {rows[i].Date : i \in 1..Len(rows)} :
        \A j \in 1..Len(rows) : DateLeq(dt, rows[j].Date)

\* pl.col("Date").max() of a frame with at least one row
MaxDate(rows) ==
    CHOOSE dt \in {rows[i].Date : i \in 1..Len(rows)} :
        \A j \in 1..Len(rows) : DateLeq(rows[j].Date, dt)

\* WithToDrop marking the ending month also when the target day is the last day
WithToDropGeq(rows, day, end, last_date) ==
    Rows([i \in 1..Len(rows) |->
        [Date |-> rows[i].Date, Close |-> rows[i].Close,
         year |-> rows[i].year, month |-> rows[i].month, day |-> rows[i].day,
         to_drop |-> IF /\ day >= last_date.day
                        /\ end.month = rows[i].month
                        /\ end.year = rows[i].year
                     THEN 1 ELSE 0]])

\* WithToDrop without the test for the period's ending month
WithToDropAnyMonth(rows, day, end, last_date) ==
    Rows([i \in 1..Len(rows) |->
        [Date |-> rows[i].Date, Close |-> rows[i].Close,
         year |-> rows[i].year, month |-> rows[i].month, day |-> rows[i].day,
         to_drop |-> IF day > last_date.day THEN 1 ELSE 0]])

\* with_columns(pl.when(...).then(1).otherwise(0).alias("to_drop")); last_date
\* is pl.col("Date").max(), read only when the frame has rows
WithToDrop(rows, day, end, last_date) ==
    Rows([i \in 1..Len(rows) |->
        [Date |-> rows[i].Date, Close |-> rows[i].Close,
         year |-> rows[i].year, month |-> rows[i].month, day |-> rows[i].day,
         to_drop |-> IF /\ day > last_date.day
                        /\ end.month = rows[i].month
                        /\ end.year = rows[i].year
                     THEN 1 ELSE 0]])

NotToDrop(r) == r.to_drop = 0

drop_last_month_if_needed(rows, day, p) ==
    IF PeriodItem(p, 1).kind # "datetime"
    THEN Raised("InvalidOperationError")    \* .dt.month() of a string literal
    ELSE Frame(SelectSeq(WithToDrop(rows, day, PeriodItem(p, 1).date, MaxDate(rows)),
                         NotToDrop))

\* with_columns(...alias("to_drop")) of drop_first_month_if_needed; first_date
\* is pl.col("Date").min(), read only when the frame has rows
WithFirstToDrop(rows, day, start, first_date) ==
    Rows([i \in 1..Len(rows) |->
        [Date |-> rows[i].Date, Close |-> rows[i].Close,
         year |-> rows[i].year, month |-> rows[i].month, day |-> rows[i].day,
         to_drop |-> IF /\ day < first_date.day
                        /\ start.month = rows[i].month
                        /\ start.year = rows[i].year
                     THEN 1 ELSE 0]])

\* defined by the class, left out of the pipeline of get_prepared_df
drop_first_month_if_needed(rows, day, p) ==
    IF PeriodItem(p, 0).kind # "datetime"
    THEN Raised("InvalidOperationError")    \* .dt.month() of a string literal
    ELSE Frame(SelectSeq(WithFirstToDrop(rows, day, PeriodItem(p, 0).date, MinDate(rows)),
                         NotToDrop))

\* get_prepared_df with the pipe step drop_first_month_if_needed switched on
get_prepared_df_dropping_first(table, day, p) ==
    LET first == drop_first_month_if_needed(extract_dates(table), day, p)
    IN  IF first.err # "none" THEN first
        ELSE drop_last_month_if_needed(first.rows, day, p)

\* the pipe step drop_first_month_if_needed is commented out (line 157)
get_prepared_df(table, day, p) ==
    drop_last_month_if_needed(extract_dates(table), day, p)

get_diff(rows, day) ==
    Rows([i \in 1..Len(rows) |->
        [Date |-> rows[i].Date, Close |-> rows[i].Close,
         year |-> rows[i].year, month |-> rows[i].month, day |-> rows[i].day,
         to_drop |-> rows[i].to_drop, diff |-> rows[i].day - day]])

\* max / min of an integer column over the rows of one (year, month) group
SetMax(S) == CHOOSE x \in S : \A y \in S : y <= x
SetMin(S) == CHOOSE x \in S : \A y \in S : x <= y
GroupOf(rows, r) ==
    {i \in 1..Len(rows) : rows[i].year = r.year /\ rows[i].month = r.month}

\* FilterSide keeping only the days strictly after the target day
FilterSideStrict(rows, day) ==
    LET condition_1(r) == day < SetMax({rows[i].day : i \in GroupOf(rows, r)})
        Side(r) == IF condition_1(r) THEN r.diff > 0 ELSE r.diff <= 0
    IN  SelectSeq(rows, Side)

\* FilterSide without its otherwise branch: always the days on or after
FilterSideAfterOnly(rows, day) ==
    LET Side(r) == r.diff >= 0
    IN  SelectSeq(rows, Side)

\* the first filter: the side of the target day that condition_1 chooses
FilterSide(rows, day) ==
    LET condition_1(r) == day < SetMax({rows[i].day : i \in GroupOf(rows, r)})
        Side(r) == IF condition_1(r) THEN r.diff >= 0 ELSE r.diff <= 0
    IN  SelectSeq(rows, Side)

\* the second filter, over the rows the first one left: condition_2
FilterClosest(rows) ==
    LET condition_2(r) ==
            Abs(r.diff) = SetMin({Abs(rows[i].diff) : i \in GroupOf(rows, r)})
    IN  SelectSeq(rows, condition_2)

get_filtered_df(rows, day) == FilterClosest(FilterSide(rows, day))

\* .drop("year", "month", "day", "diff", "to_drop")
DropColumns(rows) ==
    Rows([i \in 1..Len(rows) |-> [Date |-> rows[i].Date, Close |-> rows[i].Close]])

add_bought_stocks(rows, amount) ==
    Rows([i \in 1..Len(rows) |->
        [Date |-> rows[i].Date, Close |-> rows[i].Close,
         bought_stocks |-> Rat(amount, rows[i].Close)]])

RECURSIVE CumSum(_, _)
CumSum(rows, i) ==
    IF i = 1 THEN rows[1].bought_stocks
    ELSE RatAdd(CumSum(rows, i - 1), rows[i].bought_stocks)

add_all_stocks(rows) ==
    Rows([i \in 1..Len(rows) |->
        [Date |-> rows[i].Date, Close |-> rows[i].Close,
         bought_stocks |-> rows[i].bought_stocks,
         all_stocks |-> CumSum(rows, i)]])

\* add_total_worth valuing only the units bought on the row's date
add_total_worth_bought(rows) ==
    Rows([i \in 1..Len(rows) |->
        [Date |-> rows[i].Date, Close |-> rows[i].Close,
         bought_stocks |-> rows[i].bought_stocks,
         all_stocks |-> rows[i].all_stocks,
         total_worth |-> RatMulInt(rows[i].bought_stocks, rows[i].Close)]])

add_total_worth(rows) ==
    Rows([i \in 1..Len(rows) |->
        [Date |-> rows[i].Date, Close |-> rows[i].Close,
         bought_stocks |-> rows[i].bought_stocks,
         all_stocks |-> rows[i].all_stocks,
         total_worth |-> RatMulInt(rows[i].all_stocks, rows[i].Close)]])

add_day_to_invest(rows, day) ==
    Rows([i \in 1..Len(rows) |->
        [Date |-> rows[i].Date, Close |-> rows[i].Close,
         bought_stocks |-> rows[i].bought_stocks,
         all_stocks |-> rows[i].all_stocks,
         total_worth |-> rows[i].total_worth,
         day_to_invest |-> day]])

\* get_result_df(...).collect(); the pct_chg columns that add_pct_chg appends
\* are functions of Close alone and are left out of the rows
ResultPipeline(prepared_df, amount, day) ==
    IF prepared_df.err # "none" THEN prepared_df
    ELSE Frame(add_day_to_invest(add_total_worth(add_all_stocks(
            add_bought_stocks(DropColumns(get_filtered_df(
                get_diff(prepared_df.rows, day), day)), amount))), day))

get_result_df(table, amount, day, p) ==
    ResultPipeline(get_prepared_df(table, day, p), amount, day)

\* .sort("Date"): stable insertion sort on the Date column
RECURSIVE InsertByDate(_, _)
InsertByDate(sorted, r) ==
    IF sorted = <<>> THEN <<r>>
    ELSE IF DateLeq(sorted[Len(sorted)].Date, r.Date) THEN Append(sorted, r)
    ELSE Append(InsertByDate(SubSeq(sorted, 1, Len(sorted) - 1), r),
                sorted[Len(sorted)])
RECURSIVE SortByDate(_)
SortByDate(rows) ==
    IF rows = <<>> THEN <<>>
    ELSE InsertByDate(SortByDate(SubSeq(rows, 1, Len(rows) - 1)), rows[Len(rows)])

\* result_df.sort("Date").select("total_worth").collect()[-1].item()
LastItem(sorted) ==
    IF Len(sorted) = 0
    THEN [err |-> "ValueError", value |-> <<>>]     \* .item() of a 0-row frame
    ELSE [err |-> "none", value |-> <<sorted[Len(sorted)].total_worth>>]

LastTotalWorth(res) ==
    IF res.err # "none" THEN [err |-> res.err, value |-> <<>>]
    ELSE LastItem(SortByDate(res.rows))

get_total_worth(table, amount, day, p) ==
    LastTotalWorth(get_result_df(table, amount, day, p))

NoRows == [done |-> FALSE, err |-> "none", rows |-> <<>>]
NoWorth == [done |-> FALSE, err |-> "none", value |-> <<>>]
NoSweep == [op |-> "none"]
NoPeriods == [err |-> "none", list |-> <<>>, min_length |-> 0, step |-> 0]
NoWriter == [n |-> 0, i |-> 0, day |-> 0, cnt |-> 0, all_day_dfs |-> <<>>,
             files |-> <<>>, returned |-> FALSE]

Init ==
    /\ df \in AllSeries
    /\ pc = "idle"
    /\ invest_amount = 0
    /\ day_to_invest = 0
    /\ period = PeriodStr("")
    /\ self_df = <<>>
    /\ result_df_set = FALSE
    /\ total_worth_c = <<>>
    /\ collected = NoRows
    /\ worth = NoWorth
    /\ sweep = NoSweep
    /\ time_periods = NoPeriods
    /\ writer = NoWriter

\* SavingPlan.__init__
SavingPlanInit(amount, day, p) ==
    /\ pc = "idle"
    /\ invest_amount' = amount
    /\ day_to_invest' = day
    /\ period' = p
    /\ IF p.tag = "str"
       THEN /\ self_df' = df
            /\ pc' = IF p.str = "max" THEN "plan" ELSE "failed"   \* the assert
       ELSE /\ self_df' = InitFilter(df, p)
            /\ pc' = "plan"
    /\ result_df_set' = FALSE
    /\ total_worth_c' = <<>>
    /\ UNCHANGED <<df, collected, worth, sweep, time_periods, writer>>

\* the result_df property, collected by its reader
ResultDf ==
    /\ pc = "plan"
    /\ result_df_set' = TRUE
    /\ \E res \in {get_result_df(self_df, invest_amount, day_to_invest, period)} :
            collected' = [done |-> TRUE, err |-> res.err, rows |-> res.rows]
    /\ UNCHANGED <<df, pc, invest_amount, day_to_invest, period, self_df,
                   total_worth_c, worth, sweep, time_periods, writer>>

\* the total_worth property
TotalWorth ==
    /\ pc = "plan"
    /\ IF total_worth_c # <<>>
       THEN /\ worth' = [done |-> TRUE, err |-> "none", value |-> total_worth_c]
            /\ UNCHANGED <<total_worth_c, result_df_set>>
       ELSE \E tw \in {get_total_worth(self_df, invest_amount, day_to_invest, period)} :
                /\ result_df_set' = TRUE
                /\ total_worth_c' = tw.value
                /\ worth' = [done |-> TRUE, err |-> tw.err, value |-> tw.value]
    /\ UNCHANGED <<df, pc, invest_amount, day_to_invest, period, self_df,
                   collected, sweep, time_periods, writer>>

\* get_saving_plans(...) followed by plan.total_worth of every plan: the
\* list of the 31 terminal values, or the first exception raised
SweepDays == 1..31
PlanWorth(table, amount, day, p) ==
    IF p.tag = "str"
    THEN (IF p.str = "max" THEN get_total_worth(table, amount, day, p)
          ELSE [err |-> "AssertionError", value |-> <<>>])
    ELSE get_total_worth(InitFilter(table, p), amount, day, p)

FirstRaised(plans, bad) ==
    IF bad # {}
    THEN [err |-> plans[SetMin(bad)].err, list |-> <<>>]
    ELSE [err |-> "none", list |-> Rows([day \in SweepDays |-> plans[day].value[1]])]

WorthList(plans) ==
    FirstRaised(plans, {day \in SweepDays : plans[day].err # "none"})

TotalWorths(table, amount, p) ==
    WorthList(Rows([day \in SweepDays |-> PlanWorth(table, amount, day, p)]))

\* np.argmax / np.argmin: the 0-based index of the first maximum / minimum
argmax(list) ==
    (CHOOSE i \in 1..Len(list) :
        /\ \A j \in 1..Len(list) : RatLeq(list[j], list[i])
        /\ \A j \in 1..(i - 1) : RatLess(list[j], list[i])) - 1
argmin(list) ==
    (CHOOSE i \in 1..Len(list) :
        /\ \A j \in 1..Len(list) : RatLeq(list[i], list[j])
        /\ \A j \in 1..(i - 1) : RatLess(list[i], list[j])) - 1

\* list[k] for a Python list and k >= 0: <<>> stands for IndexError
PyItem(list, k) == IF k < Len(list) THEN <<list[k + 1]>> ELSE <<>>

\* dashboard/main.py line 99: saving_plans[best_day] - saving_plans[worst_day]
MainDiff(total_worths, best_day, worst_day) ==
    IF PyItem(total_worths, best_day) = <<>> \/ PyItem(total_worths, worst_day) = <<>>
    THEN [op |-> "main", err |-> "IndexError", total_worths |-> total_worths,
          best_day |-> best_day, worst_day |-> worst_day, diff |-> <<>>]
    ELSE [op |-> "main", err |-> "none", total_worths |-> total_worths,
          best_day |-> best_day, worst_day |-> worst_day,
          diff |-> <<RatSub(PyItem(total_worths, best_day)[1],
                            PyItem(total_worths, worst_day)[1])>>]

\* dashboard/main.py: best day, worst day and their difference
MainMetrics(tw) ==
    IF tw.err # "none"
    THEN [op |-> "main", err |-> tw.err, total_worths |-> <<>>,
          best_day |-> 0, worst_day |-> 0, diff |-> <<>>]
    ELSE MainDiff(tw.list, argmax(tw.list) + 1, argmin(tw.list) + 1)

\* main(), lines 84-100: the sweep over the amount and the period chosen on the
\* page (a positive amount from the slider, a pair of dates) and its three
\* metrics; the chart of the single chosen day above it takes no part in them
Main(amount, p) ==
    /\ pc = "idle"
    /\ pc' = "main"
    /\ invest_amount' = amount
    /\ period' = p
    /\ sweep' = MainMetrics(TotalWorths(df, amount, p))
    /\ UNCHANGED <<df, day_to_invest, self_df,
                   result_df_set, total_worth_c, collected, worth, time_periods, writer>>

\* visualize.plot_total_worth: the percentage spread and the highlighted bars
PlotFigure(total_worhts, lo, spread, best_day, worst_day) ==
    [op |-> "plot", err |-> "none", total_worths |-> total_worhts,
     \* float division: x / 0 is nan or inf, not an exception
     max_diff |-> IF lo[1] = 0 THEN <<>>
                  ELSE <<Rat(spread[1] * lo[2] * 100, spread[2] * lo[1])>>,
     best_day |-> best_day, best_y |-> total_worhts[best_day - 1 + 1],
     worst_day |-> worst_day, worst_y |-> total_worhts[worst_day - 1 + 1]]

PlotMetrics(tw) ==
    IF tw.err # "none"
    THEN [op |-> "plot", err |-> tw.err, total_worths |-> <<>>,
          max_diff |-> <<>>, best_day |-> 0, best_y |-> <<0, 1>>,
          worst_day |-> 0, worst_y |-> <<0, 1>>]
    ELSE PlotFigure(tw.list, tw.list[argmin(tw.list) + 1],
                    RatSub(tw.list[argmax(tw.list) + 1], tw.list[argmin(tw.list) + 1]),
                    argmax(tw.list) + 1, argmin(tw.list) + 1)

PlotTotalWorth(amount, p) ==
    /\ pc = "idle"
    /\ pc' = "plot"
    /\ invest_amount' = amount
    /\ period' = p
    /\ sweep' = PlotMetrics(TotalWorths(df, amount, p))
    /\ UNCHANGED <<df, day_to_invest, self_df,
                   result_df_set, total_worth_c, collected, worth, time_periods, writer>>

-----------------------------------------------------------------------------
(* get_all_possible_time_periods *)

\* the tables the period generator is run on: at most two rows, whose dates
\* are the table's min and max
PeriodDates ==
    [year : 2023..(2023 + MaxSpanYears), month : {1, 6, 12}, day : {1, 28}]
PeriodSeries ==
    {s \in UNION {[1..n -> [Date : PeriodDates, Close : {1}]] : n \in 0..2} :
        \A i \in 1..(Len(s) - 1) : DateKey(s[i].Date) < DateKey(s[i + 1].Date)}

\* lines 349-357: every (y, m) from the first month to the last, ascending
RECURSIVE YearMonths(_, _, _, _)
YearMonths(y, m, max_year, max_month) ==
    IF y > max_year \/ (y = max_year /\ m > max_month) THEN <<>>
    ELSE <<<<y, m>>>> \o (IF m = 12 THEN YearMonths(y + 1, 1, max_year, max_month)
                          ELSE YearMonths(y, m + 1, max_year, max_month))

\* list[::step]
EveryNth(list, step) ==
    Rows([k \in 1..((Len(list) + step - 1) \div step) |-> list[(k - 1) * step + 1]])

\* lines 360-361: every (start, end) of the two nested loops, start-major
StartEndPairs(months) ==
    Rows([k \in 1..(Len(months) * Len(months)) |->
        <<months[((k - 1) \div Len(months)) + 1], months[((k - 1) % Len(months)) + 1]>>])

\* TooShort skipping also the pairs of exactly min_length years
TooShortLeq(start, end, min_length) ==
    RatLeq(Rat((end[1] - start[1]) * 12 + end[2] - start[2], 12), <<min_length, 1>>)

\* lines 362-366: length / 12 < min_length skips the pair
TooShort(start, end, min_length) ==
    RatLess(Rat((end[1] - start[1]) * 12 + end[2] - start[2], 12), <<min_length, 1>>)

\* lines 368-373: the period appended for a pair that is long enough
PeriodOf(start, end) ==
    <<MkDate(start[1], start[2], 1),
      MkDate(end[1], end[2], get_last_day_of_month(end[1], end[2]))>>

KeptPairs(pairs, min_length) ==
    LET LongEnough(pr) == ~TooShort(pr[1], pr[2], min_length)
    IN  SelectSeq(pairs, LongEnough)

PeriodsOfPairs(kept) ==
    Rows([k \in 1..Len(kept) |-> PeriodOf(kept[k][1], kept[k][2])])

PeriodsFrom(months, min_length) ==
    PeriodsOfPairs(KeptPairs(StartEndPairs(months), min_length))

get_all_possible_time_periods(table, min_length, step) ==
    IF Len(table) = 0
    THEN [err |-> "AttributeError", list |-> <<>>,     \* None has no .year
          min_length |-> min_length, step |-> step]
    ELSE [err |-> "none",
          list |-> PeriodsFrom(
                      EveryNth(YearMonths(MinDate(table).year, MinDate(table).month,
                                          MaxDate(table).year, MaxDate(table).month),
                               step),
                      min_length),
          min_length |-> min_length, step |-> step]

GetAllPossibleTimePeriods(min_length, step) ==
    /\ pc = "idle"
    /\ pc' = "periods"
    /\ time_periods' = get_all_possible_time_periods(df, min_length, step)
    /\ UNCHANGED <<df, invest_amount, day_to_invest, period, self_df,
                   result_df_set, total_worth_c, collected, worth, sweep, writer>>

InitPeriods ==
    /\ df \in PeriodSeries
    /\ pc = "idle"
    /\ invest_amount = 0
    /\ day_to_invest = 0
    /\ period = PeriodStr("")
    /\ self_df = <<>>
    /\ result_df_set = FALSE
    /\ total_worth_c = <<>>
    /\ collected = NoRows
    /\ worth = NoWorth
    /\ sweep = NoSweep
    /\ time_periods = NoPeriods
    /\ writer = NoWriter

NextPeriods ==
    \E min_length \in 1..MaxMinLength, step \in 1..MaxStep :
        GetAllPossibleTimePeriods(min_length, step)

SpecPeriods == InitPeriods /\ [][NextPeriods]_vars

-----------------------------------------------------------------------------
(* write_simulation_result: the sweep over (period, day) with checkpoint files *)

FlushInterval == 5000   \* the literal of "if cnt % 5000 == 0"
MaxPeriods == 3         \* most periods of a short run
LongRun == 162          \* periods of a run that passes cnt = 5000 (162 * 31 = 5022)
PeriodCounts == 0..MaxPeriods \cup {LongRun}

\* one price point: the table the run of write_simulation_result is given
WriterSeries == {s \in AllSeries : Len(s) = 1 /\ s[1].Date = MkDate(2023, 1, 5)}

\* the lazy result_df of SavingPlan(df, invest_amount, day, time_periods[i]),
\* named by the place of its period in time_periods and its day
PlanResult(i, day) == <<i, day>>

\* the call, up to the first iteration: all_day_dfs = [], cnt = 0
WriteSimulationResult(n, amount) ==
    /\ pc = "idle"
    /\ pc' = "write"
    /\ invest_amount' = amount
    /\ writer' = [n |-> n, i |-> 1, day |-> 1, cnt |-> 0, all_day_dfs |-> <<>>,
                  files |-> <<>>, returned |-> FALSE]
    /\ UNCHANGED <<df, day_to_invest, period, self_df, result_df_set,
                   total_worth_c, collected, worth, sweep, time_periods>>

\* pl.concat(all_day_dfs).collect().write_parquet(path / f"{cnt:04}.parquet"):
\* the file named after cnt holds the buffered results, replacing such a file
WriteParquet(files, cnt, all_day_dfs) ==
    [name \in DOMAIN files \cup {cnt} |->
        IF name = cnt THEN all_day_dfs ELSE files[name]]

\* one pass of the inner loop body: append, write when cnt % 5000 = 0, cnt += 1
WriterStep ==
    /\ pc = "write" /\ ~writer.returned
    /\ writer.i <= writer.n
    /\ \E buf \in {Append(writer.all_day_dfs, PlanResult(writer.i, writer.day))} :
         \E flush \in {writer.cnt % FlushInterval = 0} :
            writer' = [writer EXCEPT
                !.files = IF flush THEN WriteParquet(@, writer.cnt, buf) ELSE @,
                !.all_day_dfs = IF flush THEN <<>> ELSE buf,
                !.cnt = @ + 1,
                !.day = IF @ = 31 THEN 1 ELSE @ + 1,
                !.i = IF writer.day = 31 THEN @ + 1 ELSE @]
    /\ UNCHANGED <<df, pc, invest_amount, day_to_invest, period, self_df,
                   result_df_set, total_worth_c, collected, worth, sweep,
                   time_periods>>

\* both loops are exhausted: the function returns
WriterReturn ==
    /\ pc = "write" /\ ~writer.returned
    /\ writer.i > writer.n
    /\ writer' = [writer EXCEPT !.returned = TRUE]
    /\ UNCHANGED <<df, pc, invest_amount, day_to_invest, period, self_df,
                   result_df_set, total_worth_c, collected, worth, sweep,
                   time_periods>>

InitWriter ==
    /\ df \in WriterSeries
    /\ pc = "idle"
    /\ invest_amount = 0
    /\ day_to_invest = 0
    /\ period = PeriodStr("")
    /\ self_df = <<>>
    /\ result_df_set = FALSE
    /\ total_worth_c = <<>>
    /\ collected = NoRows
    /\ worth = NoWorth
    /\ sweep = NoSweep
    /\ time_periods = NoPeriods
    /\ writer = NoWriter

NextWriter ==
    \/ \E n \in PeriodCounts, amount \in PositiveAmounts :
            WriteSimulationResult(n, amount)
    \/ WriterStep
    \/ WriterReturn

SpecWriter == InitWriter /\ [][NextWriter]_vars

Next ==
    \/ \E amount \in InvestAmounts, day \in TargetDays, p \in Periods :
            SavingPlanInit(amount, day, p)
    \/ ResultDf
    \/ TotalWorth
    \/ \E amount \in PositiveAmounts, p \in ExplicitPeriods : Main(amount, p)
    \/ \E amount \in PositiveAmounts, p \in ExplicitPeriods \cup {PeriodStr("max")} :
            PlotTotalWorth(amount, p)

Spec == Init /\ [][Next]_vars

-----------------------------------------------------------------------------
(* Properties of a single SavingPlan *)

YearMonth(dt) == <<dt.year, dt.month>>
MonthsIn(rows) == {YearMonth(rows[i].Date) : i \in 1..Len(rows)}
DaysIn(rows, ym) ==
    {rows[i].Date.day : i \in {j \in 1..Len(rows) : YearMonth(rows[j].Date) = ym}}
RowsIn(rows, ym) == {i \in 1..Len(rows) : YearMonth(rows[i].Date) = ym}

\* the plan has an explicit period and its result rows were collected
Collected == pc = "plan" /\ period.tag = "tuple" /\ collected.done /\ collected.err = "none"
ValidConfig == day_to_invest \in 1..31 /\ invest_amount > 0

\* the month group of ym is removed by the last-month rule
Trimmed(ym) ==
    /\ ym = YearMonth(period.end)
    /\ day_to_invest > SetMax(DaysIn(self_df, ym))
KeptMonths == {ym \in MonthsIn(self_df) : ~Trimmed(ym)}

\* exactly one purchase in month ym, made on day d
OnePurchaseOn(ym, d) ==
    /\ Cardinality(RowsIn(collected.rows, ym)) = 1
    /\ DaysIn(collected.rows, ym) = {d}

\* C1: in every kept month whose largest available day is greater than the
\* target day, exactly one price point is bought: the one of the smallest day
\* that is on or after the target day (the target day itself when it trades)
C1_FirstDayOnOrAfter ==
    Collected =>
        \A ym \in KeptMonths :
            SetMax(DaysIn(self_df, ym)) > day_to_invest =>
                OnePurchaseOn(ym, SetMin({d \in DaysIn(self_df, ym) : d >= day_to_invest}))

\* a plan with two kept months that both trade on the target day, one of them
\* also on a later day, and a purchase on the target day in each
C1_Witness ==
    /\ Collected /\ ValidConfig
    /\ Cardinality(KeptMonths) = 2
    /\ \A ym \in KeptMonths : day_to_invest \in DaysIn(self_df, ym)
    /\ \E ym \in KeptMonths : SetMax(DaysIn(self_df, ym)) > day_to_invest
    /\ \A ym \in KeptMonths : OnePurchaseOn(ym, day_to_invest)

\* C2: in every kept month whose largest available day is at most the target
\* day, exactly one price point is bought: the last available day of that month
C2_LastDayOfShortMonth ==
    Collected =>
        \A ym \in KeptMonths :
            SetMax(DaysIn(self_df, ym)) <= day_to_invest =>
                OnePurchaseOn(ym, SetMax(DaysIn(self_df, ym)))

\* target day 31 with a February that ends before it and a March after it:
\* February's purchase is made on February's last available day
C2_Witness ==
    /\ Collected /\ ValidConfig
    /\ day_to_invest = 31
    /\ <<2023, 2>> \in KeptMonths /\ <<2023, 3>> \in KeptMonths
    /\ OnePurchaseOn(<<2023, 2>>, SetMax(DaysIn(self_df, <<2023, 2>>)))
    /\ Len(collected.rows) = Cardinality(KeptMonths)

\* C3: bought units times close is the invest amount; cumulative units are the
\* running sum of bought units and never decrease; a row's total_worth is its
\* cumulative units times its close; and the scalar total_worth is that of the
\* chronologically last row
C3_Accumulation ==
    (Collected /\ ValidConfig) =>
        LET rows == collected.rows
        IN  /\ \A i \in 1..Len(rows) :
                /\ RatMulInt(rows[i].bought_stocks, rows[i].Close) = <<invest_amount, 1>>
                /\ rows[i].total_worth = RatMulInt(rows[i].all_stocks, rows[i].Close)
                /\ i = 1 => rows[i].all_stocks = rows[i].bought_stocks
                /\ i > 1 => /\ rows[i].all_stocks =
                                   RatAdd(rows[i - 1].all_stocks, rows[i].bought_stocks)
                            /\ RatLeq(rows[i - 1].all_stocks, rows[i].all_stocks)
            /\ (worth.done /\ worth.err = "none") =>
                \E i \in 1..Len(rows) :
                    /\ \A j \in 1..Len(rows) : DateLeq(rows[j].Date, rows[i].Date)
                    /\ worth.value = <<RatMulInt(rows[i].all_stocks, rows[i].Close)>>

\* three purchases at differing closes, with the scalar read as well
C3_Witness ==
    /\ Collected /\ ValidConfig
    /\ Len(collected.rows) = 3
    /\ collected.rows[1].Close # collected.rows[2].Close
    /\ collected.rows[3].all_stocks # collected.rows[2].all_stocks
    /\ worth.done /\ worth.err = "none"

\* C5: with the period 'max' the rows are collected and the total worth is read
\* without an error, with purchases in every month of the supplied series
C5_MaxPeriodSucceeds ==
    (pc = "plan" /\ period.tag = "str" /\ ValidConfig /\ df # <<>>) =>
        /\ self_df = df
        /\ collected.done =>
                /\ collected.err = "none"
                /\ MonthsIn(collected.rows) = MonthsIn(df)
        /\ worth.done => worth.err = "none"

\* C6: a plan whose target day is outside 1..31 or whose amount is not
\* positive fails, and yields neither result rows nor a total worth (whatever
\* the exception is called; the period is an explicit one)
C6_InvalidConfigRejected ==
    (pc = "plan" /\ period.tag = "tuple" /\ ~ValidConfig) =>
        /\ collected.done => collected.rows = <<>>
        /\ worth.done => worth.value = <<>>

\* C7: a plan left with zero purchase rows fails on both ways of reading its
\* result: collecting the rows never returns an empty frame, and reading the
\* total worth raises
C7_EmptyResultRaises ==
    (pc = "plan" /\ period.tag = "tuple" /\ ValidConfig) =>
        /\ collected.done => ~(collected.err = "none" /\ collected.rows = <<>>)
        /\ (worth.done /\ collected.done /\ collected.rows = <<>>) =>
                worth.err # "none"

\* C10: the points of the period's ending month are excluded from the purchases
\* exactly when the target day is greater than the last available day of that
\* month; otherwise that month is bought once; and the last-month rule removes
\* no point of any other month
C10_LastMonthRule ==
    Collected =>
        LET ending == YearMonth(period.end)
            prepared == get_prepared_df(self_df, day_to_invest, period).rows
        IN  /\ ending \in MonthsIn(self_df) =>
                /\ SetMax(DaysIn(self_df, ending)) = self_df[Len(self_df)].Date.day
                /\ (day_to_invest > SetMax(DaysIn(self_df, ending)))
                        <=> (RowsIn(collected.rows, ending) = {})
                /\ (day_to_invest > SetMax(DaysIn(self_df, ending)))
                        <=> (RowsIn(prepared, ending) = {})
                /\ (day_to_invest <= SetMax(DaysIn(self_df, ending))) =>
                        Cardinality(RowsIn(collected.rows, ending)) = 1
            /\ \A ym \in MonthsIn(self_df) \ {ending} :
                /\ DaysIn(prepared, ym) = DaysIn(self_df, ym)
                /\ Cardinality(RowsIn(collected.rows, ym)) = 1

\* the ending month is dropped while an earlier month keeps its purchase
C10_Witness ==
    /\ Collected /\ ValidConfig
    /\ YearMonth(period.end) \in MonthsIn(self_df)
    /\ day_to_invest > SetMax(DaysIn(self_df, YearMonth(period.end)))
    /\ RowsIn(collected.rows, YearMonth(period.end)) = {}
    /\ Cardinality(MonthsIn(self_df)) >= 2
    /\ Len(collected.rows) = Cardinality(MonthsIn(self_df)) - 1

\* the plan's period starts in the middle of a month, after the target day,
\* in a month that is not the period's ending month and has a price point
MidMonthStart ==
    /\ Collected
    /\ day_to_invest < period.start.day
    /\ YearMonth(period.start) # YearMonth(period.end)
    /\ YearMonth(period.start) \in MonthsIn(self_df)

\* C11: when the period starts mid-month after the target day and its first
\* month is not its ending month, the first month stays in the prepared frame
\* and is bought exactly once, on its first available day within the period
C11_FirstMonthRetained ==
    MidMonthStart =>
        LET first == YearMonth(period.start)
            prepared == get_prepared_df(self_df, day_to_invest, period).rows
        IN  /\ DaysIn(prepared, first) = DaysIn(self_df, first)
            /\ \A d \in DaysIn(self_df, first) : d >= period.start.day
            /\ OnePurchaseOn(first, SetMin(DaysIn(self_df, first)))

\* target day 5, period from January 10th: January trades on the 30th and
\* the 31st and is bought on the 30th, a later month is bought as well
C11_Witness ==
    /\ MidMonthStart /\ ValidConfig
    /\ day_to_invest = 5 /\ period.start = MkDate(2023, 1, 10)
    /\ DaysIn(self_df, <<2023, 1>>) = {30, 31}
    /\ OnePurchaseOn(<<2023, 1>>, 30)
    /\ Len(collected.rows) = 2

-----------------------------------------------------------------------------
(* Properties of the 31-day sweep *)

\* a sweep over an explicit period in which all 31 plans gave a value
SweepDone == sweep.op # "none" /\ sweep.err = "none" /\ period.tag = "tuple"
Flat(table) == \A i, j \in 1..Len(table) : table[i].Close = table[j].Close
InPeriod(table) ==
    LET Inside(r) == DateLeq(period.start, r.Date) /\ DateLeq(r.Date, period.end)
    IN  SelectSeq(table, Inside)

\* C4 as stated: over a constant-price series all 31 terminal total worths
\* are equal
C4_FlatSeriesAllEqual ==
    (SweepDone /\ Flat(df)) =>
        \A d1, d2 \in 1..31 : sweep.total_worths[d1] = sweep.total_worths[d2]

\* C4 as amended: over a constant-price series the terminal total worth of
\* target day d is the invest amount times the number of months with a price
\* point in the period, not counting the period's ending month when d is
\* greater than the last available day of that month
C4_FlatSeriesWorthPerSide ==
    (SweepDone /\ Flat(df)) =>
        LET inside == InPeriod(df)
            ending == YearMonth(period.end)
            months == Cardinality(MonthsIn(inside))
        IN  \A d \in 1..31 :
                sweep.total_worths[d] =
                    <<invest_amount *
                        (IF ending \in MonthsIn(inside) /\ d > SetMax(DaysIn(inside, ending))
                         THEN months - 1 ELSE months), 1>>

\* a flat series whose ending month stops before day 31: the days up to its
\* last day agree, the later days agree, and the two sides differ
C4_Witness ==
    /\ SweepDone /\ Flat(df) /\ Len(df) >= 2
    /\ YearMonth(period.end) \in MonthsIn(InPeriod(df))
    /\ SetMax(DaysIn(InPeriod(df), YearMonth(period.end))) = 30
    /\ sweep.total_worths[1] = sweep.total_worths[30]
    /\ sweep.total_worths[30] # sweep.total_worths[31]

\* C9: the page's best day is the first day of maximal terminal worth, its
\* worst day the first day of minimal terminal worth, and its difference is
\* defined and equal to max - min >= 0, whichever days these are
C9_SpreadIsMaxMinusMin ==
    (sweep.op = "main" /\ sweep.total_worths # <<>>) =>
        LET tw == sweep.total_worths
        IN  /\ sweep.best_day \in 1..31 /\ sweep.worst_day \in 1..31
            /\ \A d \in 1..31 : RatLeq(tw[d], tw[sweep.best_day])
            /\ \A d \in 1..(sweep.best_day - 1) : RatLess(tw[d], tw[sweep.best_day])
            /\ \A d \in 1..31 : RatLeq(tw[sweep.worst_day], tw[d])
            /\ \A d \in 1..(sweep.worst_day - 1) : RatLess(tw[sweep.worst_day], tw[d])
            /\ sweep.err = "none"
            /\ sweep.diff = <<RatSub(tw[sweep.best_day], tw[sweep.worst_day])>>
            /\ RatLeq(<<0, 1>>, sweep.diff[1])

-----------------------------------------------------------------------------
(* Properties of get_all_possible_time_periods *)

PeriodsDone == pc = "periods" /\ time_periods.err = "none"
FirstDate == df[1].Date
LastDate == df[Len(df)].Date
MonthDistance ==
    (LastDate.year - FirstDate.year) * 12 + LastDate.month - FirstDate.month
\* the one window from the first month's first day to the last month's last day
FullWindow ==
    /\ Len(time_periods.list) = 1
    /\ time_periods.list[1][1] = MkDate(FirstDate.year, FirstDate.month, 1)
    /\ YearMonth(time_periods.list[1][2]) = YearMonth(LastDate)
    /\ time_periods.list[1][2].day \in 28..31
    /\ time_periods.list[1][2].day =
            get_last_day_of_month(LastDate.year, LastDate.month)
    /\ DateLeq(time_periods.list[1][1], FirstDate)
    /\ DateLeq(LastDate, time_periods.list[1][2])

\* FirstDate moved min_length years ahead
YearsAfterFirst(n) == MkDate(FirstDate.year + n, FirstDate.month, FirstDate.day)

\* C8 as stated, the span taken between the first and the last date: a series
\* of exactly min_length years gives the one full window, a shorter one none
C8_ExactSpanOneWindow ==
    (PeriodsDone /\ time_periods.step = 1) =>
        /\ LastDate = YearsAfterFirst(time_periods.min_length) => FullWindow
        /\ DateKey(LastDate) < DateKey(YearsAfterFirst(time_periods.min_length)) =>
                time_periods.list = <<>>

\* C8 as amended, the span taken as the distance in months between the month
\* of the first date and the month of the last date: 12 * min_length months
\* give the one full window, fewer months give none
C8_MonthSpanOneWindow ==
    (PeriodsDone /\ time_periods.step = 1) =>
        /\ MonthDistance = 12 * time_periods.min_length => FullWindow
        /\ MonthDistance < 12 * time_periods.min_length => time_periods.list = <<>>

\* a series whose months are exactly min_length years apart while its dates
\* are less than that apart, and the one window generated for it
C8_Witness ==
    /\ PeriodsDone /\ time_periods.step = 1
    /\ MonthDistance = 12 * time_periods.min_length
    /\ LastDate.day < FirstDate.day
    /\ FullWindow

-----------------------------------------------------------------------------
(* Properties of write_simulation_result *)

\* the results computed by a run over writer.n periods
Computed == {PlanResult(i, d) : i \in 1..writer.n, d \in SweepDays}

\* the places of result r in the files written so far
PlacesWritten(r) ==
    {pl \in UNION {{<<name, k>> : k \in 1..Len(writer.files[name])} :
                        name \in DOMAIN writer.files} :
        writer.files[pl[1]][pl[2]] = r}

\* C12: when write_simulation_result has returned, the buffer is empty, every
\* computed result stands in exactly one file, exactly once, and every file
\* holds the FlushInterval results gathered since the file before it
C12_EveryResultInOneBatch ==
    writer.returned =>
        /\ writer.all_day_dfs = <<>>
        /\ \A r \in Computed : Cardinality(PlacesWritten(r)) = 1
        /\ \A name \in DOMAIN writer.files : Len(writer.files[name]) = FlushInterval

====
